---- MODULE Spec2Model ----
(***************************************************************************)
(* Event reconstruction of analyzeBehavioral.py: the scan of a batch of   *)
(* result files (analyze), the Image / Appearance registry, the sealing   *)
(* of wheel runs (endRun, RotationInterval) and of poke episodes          *)
(* (endPoke, PokeEvent), and the pruning pass.                            *)
(*                                                                         *)
(* Timestamps are integers counting tenths of a second, so that           *)
(*   60 / dt  RPM is the rational 600 / dt  and  30 / dt  is  300 / dt,   *)
(* and a latency is kept in milliseconds (100 * t - 3 - 100 * t0).        *)
(* A speed sample is the pair <<numerator, denominator>>.                 *)
(* Python's None is the empty sequence where the value is a number (an    *)
(* optional number is a sequence of length 0 or 1) and the string NoName  *)
(* where it is a name.                                                    *)
(***************************************************************************)
EXTENDS Integers, Sequences, FiniteSets, TLC

\* ------------------------------------------------------------------ bounds
\* body lines scanned per file
MaxLines == 4
\* files of the batch
NumFiles == 2
\* tenths of a second between two log lines whose timestamps differ
Gap == 3

\* characters appended to the image name in ContrastSpec
MaxNameTail == 3

\* body lines of a file in PresetSpec
PresetLines == 2

\* door samples and pump samples of the one poke episode of PokeSpec
MaxDoors == 4
MaxPumps == 2

\* intervals in the list handed to pruneRotationIntervals in PruneSpec
MaxIntervals == 3

\* ticks of the one wheel run of RotSpec
MaxTicks == 7

\* ------------------------------------------------------- program constants
\* raw_rpms[i] > 200 is erratic
ErraticRPM == 200
\* the pump is activated 3 ms after the poke
PumpDelayMs == 3
\* endRun: fewer than 3 ticks make no interval
MinTicks == 3
\* RotationInterval: fewer than 2 surviving ticks is not viable
MinViable == 2
\* totalPokesNoTimeout: the default grace of 30 s, in tenths of a second
DefaultGrace == 300

NoName == "<None>"

\* ------------------------------------------------------------- the inputs
ControlNames == {"c1"}
RewardNames == {"r1", "r2"}
\* a name no header declares
UnknownNames == {"zz"}
Names == ControlNames \cup RewardNames \cup UnknownNames

\* A text is the sequence of its characters.
ContrastText == <<"C", "o", "n", "t", "r", "a", "s", "t">>

\* The headers a file can have: its declared image sets, whether it has a
\* 'preset: ' line and the text after it, and whether the
\* "Start of experiment" sentinel is present.
Headers ==
  { [sentinel |-> TRUE, control |-> ControlNames, reward |-> RewardNames,
     hasPreset |-> TRUE, presetText |-> ContrastText],
    [sentinel |-> FALSE, control |-> ControlNames, reward |-> RewardNames,
     hasPreset |-> TRUE, presetText |-> ContrastText] }

\* before the first file is opened nothing has been read
NoHeader ==
  [sentinel |-> FALSE, control |-> {}, reward |-> {}, hasPreset |-> FALSE,
   presetText |-> << >>]

\* the value of preset before any 'preset: ' line is read (line 732): ''
NoPreset == [enum |-> "", text |-> << >>]

\* ------------------------------------------------------------------ texts
UpperCase ==
  <<"A", "B", "C", "D", "E", "F", "G", "H", "I", "J", "K", "L", "M", "N", "O",
    "P", "Q", "R", "S", "T", "U", "V", "W", "X", "Y", "Z">>

LowerCase ==
  <<"a", "b", "c", "d", "e", "f", "g", "h", "i", "j", "k", "l", "m", "n", "o",
    "p", "q", "r", "s", "t", "u", "v", "w", "x", "y", "z">>

\* str.lower()
lower(text) ==
  [i \in 1..Len(text) |->
     IF \E k \in 1..Len(UpperCase) : UpperCase[k] = text[i]
     THEN LowerCase[CHOOSE k \in 1..Len(UpperCase) : UpperCase[k] = text[i]]
     ELSE text[i]]

\* word in text
Contains(text, word) ==
  \E i \in 0..(Len(text) - Len(word)) :
    SubSeq(text, i + 1, i + Len(word)) = word

\* ------------------------------------------------------------ dictionaries
\* A dict is a sequence of <<key, value>> pairs in insertion order with
\* unique keys; assignment to an existing key keeps its position.
DictHas(d, k) == \E i \in 1..Len(d) : d[i][1] = k

DictGet(d, k) == d[CHOOSE i \in 1..Len(d) : d[i][1] = k][2]

DictPut(d, k, v) ==
  IF DictHas(d, k)
  THEN [i \in 1..Len(d) |-> IF d[i][1] = k THEN <<k, v>> ELSE d[i]]
  ELSE Append(d, <<k, v>>)

Last(s) == s[Len(s)]

VARIABLES
  pc,               \* "next": between files, "scan": in the line loop, "crashed"
  error,            \* the uncaught exception that ended the batch, or "none"
  fileIdx,          \* files taken from getFileNames so far
  lineNo,           \* body lines of the current file processed so far
  clock,            \* timestamp of the latest line logged
  line,             \* the loop variable: the line being processed
  images,           \* the set of Image objects of the file, by name
  appearanceTimes,  \* Image._appearanceTimes, per image name
  appearances,      \* Image._appearances, per image name: dict time -> Appearance
  appearanceLog,    \* Image.appearanceLog: dict time -> Appearance
  heap,             \* the Appearance objects; a reference is an index
  wheelHalfTimes, doorStates, doorTimes, pumpStates, pumpTimes,
  poke_events, rotation_intervals,
  skipLine, curImgName, pokeInProgress,
  currentImg, pokeImg, currentState,
  header,           \* what initialize read from the head of the current file
  preset,           \* the preset initialize returned for the latest file read
  contrastLevel,    \* the latest result of getContrast, as <<level>>
  tickImgs,         \* history: currentImg at each tick of wheelHalfTimes
  erraticIntervals  \* erratic of the file's pruneRotationIntervals call

vars ==
  << pc, error, fileIdx, lineNo, clock, line, images, appearanceTimes,
     appearances, appearanceLog, heap, wheelHalfTimes, doorStates, doorTimes,
     pumpStates, pumpTimes, poke_events, rotation_intervals, skipLine,
     curImgName, pokeInProgress, currentImg, pokeImg, currentState, header,
     preset, contrastLevel, tickImgs, erraticIntervals >>

registryVars == << appearanceTimes, appearances, appearanceLog >>
wheelVars == << wheelHalfTimes, tickImgs, rotation_intervals >>
pokeVars == << doorStates, doorTimes, pumpStates, pumpTimes, poke_events >>


\* ------------------------------------------------------------------ Image
ImageOf(n) == CHOOSE im \in images : im.name = n

\* Image.latestAppearanceTime: self._appearanceTimes[-1]
latestAppearanceTime(times, img) == Last(times[img])

\* ------------------------------------------------------------ getContrast
\* CONTRAST_LVLS (line 36)
CONTRAST_LVLS ==
  << <<1, 1>>, <<2, 2>>, <<4, 4>>, <<7, 8>>, <<14, 16>>, <<27, 32>>,
     <<52, 64>>, <<100, 100>> >>

DigitChars == <<"0", "1", "2", "3", "4", "5", "6", "7", "8", "9">>

\* s.isdigit() for a character
isdigit(c) == \E k \in 1..Len(DigitChars) : DigitChars[k] = c

\* int(s) for a digit character
DigitValue(c) == (CHOOSE k \in 1..Len(DigitChars) : DigitChars[k] = c) - 1

\* int(''.join(str(digit) for digit in contrastVals)) for a non-empty list
\* of digits
JoinedInt(contrastVals) ==
  LET f[i \in 0..Len(contrastVals)] ==
        IF i = 0 THEN 0 ELSE f[i - 1] * 10 + contrastVals[i]
  IN f[Len(contrastVals)]

NegativeText == <<"n", "e", "g", "a", "t", "i", "v", "e">>

\* the table looked up without the fallback to the parsed value: a value
\* that is no key gives the value of the key 100
getContrastNoFallback(image) ==
  IF Contains(lower(image.name), NegativeText) THEN 0
  ELSE LET digits == SelectSeq(image.name, isdigit)
           contrastVals == [i \in 1..Len(digits) |-> DigitValue(digits[i])]
           contrastVal == IF contrastVals = << >> THEN 100
                          ELSE JoinedInt(contrastVals)
       IN IF DictHas(CONTRAST_LVLS, contrastVal)
          THEN DictGet(CONTRAST_LVLS, contrastVal)
          ELSE 100

\* getContrast (341-350): int('') raises ValueError when the name has no
\* digit, which the except turns into 100
getContrast(image) ==
  IF Contains(lower(image.name), NegativeText) THEN 0
  ELSE LET digits == SelectSeq(image.name, isdigit)
           contrastVals == [i \in 1..Len(digits) |-> DigitValue(digits[i])]
           contrastVal == IF contrastVals = << >> THEN 100
                          ELSE JoinedInt(contrastVals)
       IN IF DictHas(CONTRAST_LVLS, contrastVal)
          THEN DictGet(CONTRAST_LVLS, contrastVal)
          ELSE contrastVal

\* ------------------------------------------------------- RotationInterval
\* raw_rpms after the loop, the insert at 0 and the append: one sample per
\* tick, centered for interior ticks, single-sided for the first and last.
raw_rpms(halfTimes) ==
  LET n == Len(halfTimes) IN
  [i \in 1..n |->
     IF i = 1 THEN <<300, halfTimes[2] - halfTimes[1]>>
     ELSE IF i = n THEN <<300, halfTimes[n] - halfTimes[n - 1]>>
     ELSE <<600, halfTimes[i + 1] - halfTimes[i - 1]>>]

\* The constructor raises ZeroDivisionError when a difference it divides by
\* is zero.
RaisesZeroDivision(halfTimes) ==
  \E i \in 1..Len(halfTimes) : raw_rpms(halfTimes)[i][2] = 0

\* the comparison taken as >= 200
Over200OrEqual(r) == r[2] > 0 /\ r[1] >= ErraticRPM * r[2]

\* rpm > 200 for the rational rpm = r[1] / r[2], r[2] # 0
Over200(r) == r[2] > 0 /\ r[1] > ErraticRPM * r[2]

\* The indices the filter loops visit: range(1, len(halfTimes) - 1), which
\* are the ticks 2 .. n-1 counted from one.
FilterRange(halfTimes) == 2..(Len(halfTimes) - 1)

erratic(halfTimes) ==
  {i \in FilterRange(halfTimes) : Over200(raw_rpms(halfTimes)[i])}

\* the indices that survive, in order
KeptIndices(halfTimes) ==
  LET n == Len(halfTimes)
      all == [k \in 1..(IF n >= 2 THEN n - 2 ELSE 0) |-> k + 1]
  IN SelectSeq(all, LAMBDA i : i \in FilterRange(halfTimes) /\ i \notin erratic(halfTimes))

\* the constructor with the speeds taken one position early
RotationIntervalShifted(halfTimes, image) ==
  LET kept == KeptIndices(halfTimes) IN
  [ halfTimes |-> [k \in 1..Len(kept) |-> halfTimes[kept[k]]],
    rpms |-> [k \in 1..Len(kept) |-> raw_rpms(halfTimes)[kept[k] - 1]],
    viable |-> ~(Len(kept) < MinViable),
    image |-> image,
    built |-> halfTimes ]

\* the constructor with one surviving tick taken as enough
RotationIntervalViableAtOne(halfTimes, image) ==
  LET kept == KeptIndices(halfTimes) IN
  [ halfTimes |-> [k \in 1..Len(kept) |-> halfTimes[kept[k]]],
    rpms |-> [k \in 1..Len(kept) |-> raw_rpms(halfTimes)[kept[k]]],
    viable |-> ~(Len(kept) < MinViable - 1),
    image |-> image,
    built |-> halfTimes ]

\* RotationInterval.__init__ for a tick sequence that raises nothing.
\* built records the sequence the interval was constructed from.
RotationInterval(halfTimes, image) ==
  LET kept == KeptIndices(halfTimes) IN
  [ halfTimes |-> [k \in 1..Len(kept) |-> halfTimes[kept[k]]],
    rpms |-> [k \in 1..Len(kept) |-> raw_rpms(halfTimes)[kept[k]]],
    viable |-> ~(Len(kept) < MinViable),
    image |-> image,
    built |-> halfTimes ]

\* RotationInterval.startTime: self._halfTimes[0]; raises IndexError when
\* no tick survived
startTimeRaises(ri) == ri.halfTimes = << >>

startTime(ri) == ri.halfTimes[1]

\* RotationInterval.midTime: (self._halfTimes[-1] + self.halfTimes[0]) / 2,
\* as the rational <<numerator, denominator>>
midTime(ri) == <<Last(ri.halfTimes) + ri.halfTimes[1], 2>>

\* endRun with the early return one tick too low
endRunShort(halfTimes, image, intervals) ==
  IF Len(halfTimes) < MinTicks - 1 THEN intervals
  ELSE Append(intervals, RotationInterval(halfTimes, image))

\* endRun: the list after the call, which returns early below 3 ticks.
endRun(halfTimes, image, intervals) ==
  IF Len(halfTimes) < MinTicks THEN intervals
  ELSE Append(intervals, RotationInterval(halfTimes, image))

\* endRun raises when the constructor does
endRunRaises(halfTimes) ==
  ~(Len(halfTimes) < MinTicks) /\ RaisesZeroDivision(halfTimes)

\* the removal done inside the loop over the list itself: the element
\* after a removed one is skipped
pruneWhileIterating(intervals) ==
  LET Start(i) ==
        CHOOSE j \in 1..i :
          /\ \A m \in j..i : ~intervals[m].viable
          /\ j = 1 \/ intervals[j - 1].viable
      Removed(i) == ~intervals[i].viable /\ (i - Start(i)) % 2 = 0
      pos == SelectSeq([i \in 1..Len(intervals) |-> i], LAMBDA i : ~Removed(i))
  IN [k \in 1..Len(pos) |-> intervals[pos[k]]]

\* only the first non-viable interval removed
pruneFirstErratic(intervals) ==
  LET bad == {i \in 1..Len(intervals) : ~intervals[i].viable} IN
  IF bad = {} THEN intervals
  ELSE LET f == CHOOSE i \in bad : \A j \in bad : i <= j
       IN SubSeq(intervals, 1, f - 1) \o SubSeq(intervals, f + 1, Len(intervals))

\* pruneRotationIntervals: the non-viable intervals are removed
pruneRotationIntervals(intervals) ==
  SelectSeq(intervals, LAMBDA ri : ri.viable)

\* -------------------------------------------------------------- PokeEvent
\* successfulPokes: (count, corrected times in ms) of the pump-on samples
OnIndices(pStates) == {i \in 1..Len(pStates) : pStates[i] = "On"}

successfulPokesNum(pStates) == Cardinality(OnIndices(pStates))

\* the pump delay left out
CorrectedMsNoDelay(t) == 100 * t

\* t - 0.003 in milliseconds
CorrectedMs(t) == 100 * t - PumpDelayMs

\* PokeEvent.allPokes: the number of door samples that are Low
allPokesNum(dStates) == Cardinality({i \in 1..Len(dStates) : dStates[i] = "Low"})

\* int(math.ceil(n / 2)) for a count n
CeilHalf(n) == (n + 1) \div 2

\* the window taken as closed at its start and open at its end
totalPokesNoTimeoutShifted(dStates, dTimes, pTimes, pStates, grace) ==
  LET on == OnIndices(pStates) IN
  IF on = {} \/ successfulPokesNum(pStates) > 1
  THEN allPokesNum(dStates)
  ELSE LET critical_time == pTimes[CHOOSE i \in on : \A j \in on : j <= i]
           beforeSuccessful ==
             Cardinality({i \in 1..Len(dTimes) :
                            \/ dTimes[i] < critical_time
                            \/ dTimes[i] >= critical_time + grace})
       IN CeilHalf(beforeSuccessful)

\* PokeEvent.totalPokesNoTimeout(grace): critical_time is the time of the
\* last pump-on sample, None when there is none
totalPokesNoTimeout(dStates, dTimes, pTimes, pStates, grace) ==
  LET on == OnIndices(pStates) IN
  IF on = {} \/ successfulPokesNum(pStates) > 1
  THEN allPokesNum(dStates)
  ELSE LET critical_time == pTimes[CHOOSE i \in on : \A j \in on : j <= i]
           beforeSuccessful ==
             Cardinality({i \in 1..Len(dTimes) :
                            \/ dTimes[i] <= critical_time
                            \/ dTimes[i] > critical_time + grace})
       IN CeilHalf(beforeSuccessful)

\* PokeEvent.__init__ raises IndexError in latestAppearanceTime when the
\* image has no appearance yet.
PokeEventRaises(times, image) == times[image] = << >>

\* the first appearance of the image looked up instead of the latest
PokeAppearanceFirst(times, apps, image) ==
  DictGet(apps[image], times[image][1])

\* The index (reference) of the Appearance a new PokeEvent registers on:
\* image.appearances.get(image.latestAppearanceTime())
PokeAppearance(times, apps, image) ==
  DictGet(apps[image], latestAppearanceTime(times, image))

\* a latency whenever there is any successful poke
LatencyDefinedIfAny(s) == s >= 1

\* the test of line 147: latency and pokeTime are set when s == 1
LatencyDefined(s) == s = 1

PokeEvent(dStates, dTimes, pTimes, pStates, image, times, apps) ==
  LET at == latestAppearanceTime(times, image)
      on == OnIndices(pStates)
      t0 == CorrectedMs(pTimes[CHOOSE i \in on : TRUE])
  IN
  [ doorStates |-> dStates, doorTimes |-> dTimes,
    pumpTimes |-> pTimes, pumpStates |-> pStates,
    image |-> image,
    imageAppearanceTime |-> at,
    imageAppearance |-> PokeAppearance(times, apps, image),
    latency |-> IF LatencyDefined(successfulPokesNum(pStates)) THEN <<t0 - 100 * at>> ELSE << >>,
    pokeTime |-> IF LatencyDefined(successfulPokesNum(pStates)) THEN <<t0>> ELSE << >> ]

\* ------------------------------------------------------------- Appearance
\* the control test missing where the old image has appeared
rewardSeqNumNoControl(imageType, old_img, times, apps, objs) ==
  IF apps[old_img] # << >>
  THEN objs[DictGet(apps[old_img], latestAppearanceTime(times, old_img))].rewardSeqNum + 1
  ELSE IF imageType = "CONTROL" THEN 0 ELSE 1

\* the count of consecutive reward appearances not carried over
rewardSeqNumNoCount(imageType, old_img, times, apps, objs) ==
  IF imageType = "CONTROL" THEN 0 ELSE 1

\* Appearance.__init__: the reward sequence number from the previously
\* current image old_img; apps and times are the registry as the
\* constructor sees it.
rewardSeqNum(imageType, old_img, times, apps, objs) ==
  IF apps[old_img] # << >>
  THEN LET old_app_num ==
             objs[DictGet(apps[old_img], latestAppearanceTime(times, old_img))].rewardSeqNum
       IN IF imageType = "CONTROL" THEN 0 ELSE old_app_num + 1
  ELSE IF imageType = "CONTROL" THEN 0 ELSE 1

Appearance(image, time, old_img, times, apps, objs) ==
  [ time |-> time, image |-> image, poke_events |-> << >>,
    rewardSeqNum |-> rewardSeqNum(ImageOf(image).imageType, old_img, times, apps, objs),
    file |-> fileIdx ]

\* ------------------------------------------------------------------- Init
NoLine == [kind |-> "none", name |-> NoName, state |-> "", rev |-> FALSE, time |-> 0]

Init ==
  /\ pc = "next" /\ error = "none" /\ fileIdx = 0 /\ lineNo = 0 /\ clock = 0
  /\ line = NoLine
  /\ images = {}
  /\ appearanceTimes = [n \in Names |-> << >>]
  /\ appearances = [n \in Names |-> << >>]
  /\ appearanceLog = << >>
  /\ heap = << >>
  /\ wheelHalfTimes = << >> /\ doorStates = << >> /\ doorTimes = << >>
  /\ tickImgs = << >>
  /\ pumpStates = << >> /\ pumpTimes = << >>
  /\ poke_events = << >> /\ rotation_intervals = << >>
  /\ skipLine = FALSE /\ curImgName = NoName /\ pokeInProgress = FALSE
  /\ currentImg = NoName /\ pokeImg = NoName /\ currentState = "None"
  /\ header = NoHeader /\ preset = NoPreset /\ erraticIntervals = << >>
  /\ contrastLevel = << >>


\* ---------------------------------------------------------------- helpers
\* the event not put on the list
addPokeEventDropped(objs, a, pe) == objs

\* Appearance.addPokeEvent on the object at reference a; a PokeEvent is
\* referred to by its position in poke_events.
addPokeEvent(objs, a, pe) ==
  [objs EXCEPT ![a].poke_events = Append(@, pe)]

\* the new PokeEvent written over the last one of the list
endPokeOverwriting(dStates, dTimes, pTimes, pStates, image, events) ==
  LET pe == PokeEvent(dStates, dTimes, pTimes, pStates, image,
                      appearanceTimes, appearances)
  IN IF events = << >> THEN <<pe>>
     ELSE Append([events EXCEPT ![Len(events)] = pe], pe)

\* endPoke: the list after PokeEvent(...) is appended
endPoke(dStates, dTimes, pTimes, pStates, image, events) ==
  Append(events, PokeEvent(dStates, dTimes, pTimes, pStates, image,
                           appearanceTimes, appearances))

\* the log of the previous file kept
ResetLogKeep(log) == log

\* Image.appearanceLog = OrderedDict() at the top of the file loop
ResetLog(log) == << >>

\* The Appearance objects still referenced once the log is replaced and the
\* Image objects are created anew: none when the log is empty.
Collect(log, objs) == IF log = << >> THEN << >> ELSE objs

\* The image the scan starts with: the first control image of the set, or
\* the first image of the set when there is none. The iteration order of a
\* set of images is not fixed by the program.
controlImgStartChoices(imgs) ==
  LET ctl == {im \in imgs : im.imageType = "CONTROL"} IN
  {im.name : im \in (IF ctl # {} THEN ctl ELSE imgs)}

\* the tests of lines 748-759 with the text not lowered
initializePresetCaseSensitive(h) ==
  LET t == h.presetText
      Has(w) == Contains(t, w)
  IN IF ~h.hasPreset THEN NoPreset
     ELSE IF Has(<<"c", "o", "n", "t", "r", "a", "s", "t">>)
          THEN [enum |-> "CONTRAST", text |-> << >>]
     ELSE IF Has(<<"s", "p", "a", "t", "i", "a", "l">>)
          THEN [enum |-> "SPATIAL", text |-> << >>]
     ELSE IF Has(<<"1">>) THEN [enum |-> "NIGHT_1", text |-> << >>]
     ELSE IF Has(<<"2">>) THEN [enum |-> "NIGHT_2", text |-> << >>]
     ELSE IF Has(<<"3">>) THEN [enum |-> "NIGHT_3", text |-> << >>]
     ELSE IF Has(<<"4">>) THEN [enum |-> "NIGHT_4", text |-> << >>]
     ELSE [enum |-> "", text |-> t]

\* initialize: the preset it returns (lines 732, 746-759): a member of
\* Presets when the text after 'preset: ' matches, the text itself when it
\* does not, '' when the header has no such line
initializePreset(h) ==
  LET t == h.presetText
      l == lower(t)
  IN IF ~h.hasPreset THEN NoPreset
     ELSE IF Contains(l, <<"c", "o", "n", "t", "r", "a", "s", "t">>)
          THEN [enum |-> "CONTRAST", text |-> << >>]
     ELSE IF Contains(l, <<"s", "p", "a", "t", "i", "a", "l">>)
          THEN [enum |-> "SPATIAL", text |-> << >>]
     ELSE IF Contains(t, <<"1">>) THEN [enum |-> "NIGHT_1", text |-> << >>]
     ELSE IF Contains(t, <<"2">>) THEN [enum |-> "NIGHT_2", text |-> << >>]
     ELSE IF Contains(t, <<"3">>) THEN [enum |-> "NIGHT_3", text |-> << >>]
     ELSE IF Contains(t, <<"4">>) THEN [enum |-> "NIGHT_4", text |-> << >>]
     ELSE [enum |-> "", text |-> t]

\* initialize: the Image objects of the header
HeaderImages(h) ==
  {[name |-> n, imageType |-> "CONTROL"] : n \in h.control}
    \cup {[name |-> n, imageType |-> "REWARD"] : n \in h.reward}

Crash(e) == pc' = "crashed" /\ error' = e

\* the sentinel taken as found in every header
HasSentinelAlways(h) == TRUE

\* initialize returns its tuple only at the line "Start of experiment"
\* (761-762) and None when the file has no such line
HasSentinel(h) == h.sentinel

\* the first loop of pruneRotationIntervals: the intervals it will remove
ErraticOf(intervals) == SelectSeq(intervals, LAMBDA ri : ~ri.viable)

\* the timestamps the next line can carry: the previous one or a later one
NextTimes == {clock, clock + Gap}

\* ---------------------------------------------------------------- actions
\* One iteration of the file loop up to the line loop (lines 769-797), for
\* a header with the sentinel.
StartFile(h) ==
  /\ pc = "next" /\ fileIdx < NumFiles /\ HasSentinel(h)
  /\ fileIdx' = fileIdx + 1 /\ header' = h /\ erraticIntervals' = << >>
  /\ preset' = initializePreset(h)
  /\ UNCHANGED contrastLevel
  /\ appearanceLog' = ResetLog(appearanceLog)
  /\ heap' = Collect(appearanceLog', heap)
  /\ wheelHalfTimes' = << >> /\ doorStates' = << >> /\ doorTimes' = << >>
  /\ tickImgs' = << >>
  /\ pumpStates' = << >> /\ pumpTimes' = << >>
  /\ poke_events' = << >> /\ rotation_intervals' = << >>
  /\ skipLine' = FALSE /\ curImgName' = NoName /\ pokeInProgress' = FALSE
  /\ images' = HeaderImages(h)
  /\ appearanceTimes' = [n \in Names |-> << >>]
  /\ appearances' = [n \in Names |-> << >>]
  /\ \E start \in controlImgStartChoices(images') :
       currentImg' = start /\ pokeImg' = start
  /\ currentState' = "None"
  /\ pc' = "scan" /\ lineNo' = 0 /\ clock' = 0 /\ line' = NoLine
  /\ UNCHANGED error

\* The same iteration for a header without the sentinel: initialize returns
\* None, the unpacking raises TypeError, and the loop continues (778-782).
SkipFile(h) ==
  /\ pc = "next" /\ fileIdx < NumFiles /\ ~HasSentinel(h)
  /\ fileIdx' = fileIdx + 1 /\ header' = h /\ erraticIntervals' = << >>
  /\ appearanceLog' = ResetLog(appearanceLog)
  /\ wheelHalfTimes' = << >> /\ doorStates' = << >> /\ doorTimes' = << >>
  /\ tickImgs' = << >>
  /\ pumpStates' = << >> /\ pumpTimes' = << >>
  /\ poke_events' = << >> /\ rotation_intervals' = << >>
  /\ skipLine' = FALSE /\ curImgName' = NoName /\ pokeInProgress' = FALSE
  /\ line' = NoLine
  /\ UNCHANGED << pc, error, lineNo, clock, images, appearanceTimes, appearances,
                  preset, contrastLevel,
                  heap, currentImg, pokeImg, currentState >>

\* 'starting' in line: continue (801-802)
ReadStarting ==
  /\ pc = "scan" /\ lineNo < MaxLines
  /\ line' = [kind |-> "starting", name |-> NoName, state |-> "", rev |-> FALSE,
              time |-> clock]
  /\ lineNo' = lineNo + 1
  /\ UNCHANGED << pc, error, fileIdx, header, preset,
                  contrastLevel, erraticIntervals,
                  clock, images, registryVars, heap, wheelVars,
                  pokeVars, skipLine, curImgName, pokeInProgress, currentImg,
                  pokeImg, currentState >>

\* Image.incrementAppearances(time, old_img) on the image named n
incrementAppearances(n, t, old_img) ==
  LET times == [appearanceTimes EXCEPT ![n] = Append(@, t)]
      app == Appearance(n, t, old_img, times, appearances, heap)
      ref == Len(heap) + 1
  IN /\ appearanceTimes' = times
     /\ heap' = Append(heap, app)
     /\ appearances' = [appearances EXCEPT ![n] = DictPut(@, t, ref)]
     /\ appearanceLog' = DictPut(appearanceLog, t, ref)

\* the guard dropped: every announcement is taken as a new image
IsNewNameAlways(cur, new) == TRUE

\* the guard of line 806
IsNewName(cur, new) == cur # new

\* An image announcement (804-811, 852)
ReadImage(n, t) ==
  /\ pc = "scan" /\ lineNo < MaxLines
  /\ line' = [kind |-> "Image", name |-> n, state |-> "", rev |-> FALSE, time |-> t]
  /\ lineNo' = lineNo + 1 /\ clock' = t
  /\ IF IsNewName(curImgName, n)
     THEN IF \E im \in images : im.name = n
          THEN /\ incrementAppearances(n, t, currentImg)
               /\ curImgName' = n /\ currentImg' = n
               /\ skipLine' = FALSE
               /\ UNCHANGED << pc, error >>
          ELSE /\ Crash("AssertionError")
               /\ UNCHANGED << registryVars, heap, curImgName, currentImg, skipLine >>
     ELSE /\ skipLine' = FALSE
          /\ UNCHANGED << pc, error, registryVars, heap, curImgName, currentImg >>
  /\ UNCHANGED << fileIdx, header, preset, contrastLevel, erraticIntervals,
                  images, wheelVars, pokeVars, pokeInProgress, pokeImg,
                  currentState >>

\* the kinds of Wheel line: with 'State:' (a tick), with 'revolution', or both
WheelKinds ==
  { [state |-> TRUE, rev |-> FALSE], [state |-> FALSE, rev |-> TRUE],
    [state |-> TRUE, rev |-> TRUE] }

\* the Wheel branch taken whatever pokeInProgress is
WheelBranchAlways(inProgress) == TRUE

\* the condition of line 814 for a Wheel line: and not pokeInProgress
WheelBranch(inProgress) == ~inProgress

\* the flag set by every Wheel line that is processed
SkipAfterWheelAlways(rev) == TRUE

\* skipLine after a processed Wheel line (824-827, 852): set, and kept by
\* the continue, when the line holds 'revolution'
SkipAfterWheel(rev) == rev

\* A Wheel line (814-827, 852)
ReadWheel(k, t) ==
  /\ pc = "scan" /\ lineNo < MaxLines
  /\ line' = [kind |-> "Wheel", name |-> NoName,
              state |-> IF k.state THEN "Tick" ELSE "", rev |-> k.rev, time |-> t]
  /\ lineNo' = lineNo + 1 /\ clock' = t
  /\ IF ~WheelBranch(pokeInProgress)
     THEN /\ skipLine' = FALSE
          /\ UNCHANGED << pc, error, heap, wheelHalfTimes, tickImgs, pokeVars,
                          currentState >>
     ELSE IF skipLine
     THEN /\ skipLine' = FALSE
          /\ UNCHANGED << pc, error, heap, wheelHalfTimes, tickImgs, pokeVars,
                          currentState >>
     ELSE IF currentState = "Poking" /\ PokeEventRaises(appearanceTimes, pokeImg)
     THEN /\ Crash("IndexError")
          /\ UNCHANGED << heap, wheelHalfTimes, tickImgs, pokeVars, currentState,
                          skipLine >>
     ELSE /\ IF currentState = "Poking"
             THEN /\ poke_events' = endPoke(doorStates, doorTimes, pumpTimes,
                                            pumpStates, pokeImg, poke_events)
                  /\ heap' = addPokeEvent(heap, Last(poke_events').imageAppearance,
                                          Len(poke_events'))
                  /\ doorStates' = << >> /\ doorTimes' = << >>
                  /\ pumpTimes' = << >> /\ pumpStates' = << >>
             ELSE UNCHANGED << heap, pokeVars >>
          /\ currentState' = "Running"
          /\ wheelHalfTimes' = IF k.state THEN Append(wheelHalfTimes, t)
                               ELSE wheelHalfTimes
          /\ tickImgs' = IF k.state THEN Append(tickImgs, currentImg)
                         ELSE tickImgs
          /\ skipLine' = SkipAfterWheel(k.rev)
          /\ UNCHANGED << pc, error >>
  /\ UNCHANGED << fileIdx, header, preset, contrastLevel, erraticIntervals,
                  images, registryVars, rotation_intervals, curImgName,
                  pokeInProgress, currentImg, pokeImg >>

\* A Pump line (829-838, 852)
ReadPump(s, t) ==
  /\ pc = "scan" /\ lineNo < MaxLines
  /\ line' = [kind |-> "Pump", name |-> NoName, state |-> s, rev |-> FALSE, time |-> t]
  /\ lineNo' = lineNo + 1 /\ clock' = t
  /\ IF s = "On"
     THEN pokeImg' = currentImg /\ pokeInProgress' = TRUE
     ELSE pokeInProgress' = FALSE /\ UNCHANGED pokeImg
  /\ pumpStates' = Append(pumpStates, s)
  /\ pumpTimes' = Append(pumpTimes, t)
  /\ skipLine' = FALSE
  /\ UNCHANGED << pc, error, fileIdx, header, preset,
                  contrastLevel, erraticIntervals,
                  images, registryVars, heap, wheelVars,
                  doorStates, doorTimes, poke_events, curImgName, currentImg,
                  currentState >>

\* A Door line re-reads the current image for every sample
PokeImgAtDoorAlways(state, inProgress, cur, poke) == cur

\* pokeImg after a Door line (844-845): the current image is recorded when
\* the poke event starts
PokeImgAtDoor(state, inProgress, cur, poke) ==
  IF state # "Poking" /\ ~inProgress THEN cur ELSE poke

\* the wheel buffer kept when a Door line ends a run
WheelBufferKept(state, buf) == buf

\* wheelHalfTimes after a Door line (841-843): emptied when a run ends
WheelBufferAfterDoor(state, buf) == IF state = "Running" THEN << >> ELSE buf

\* the door sample of the line left out of the buffer
DoorBufferUnfilled(buf, x) == buf

\* a door buffer after a Door line (847-850): the state, or the time, of
\* the line is appended
DoorBufferAfterDoor(buf, x) == Append(buf, x)

\* A Door line (840-850, 852)
ReadDoor(s, t) ==
  /\ pc = "scan" /\ lineNo < MaxLines
  /\ line' = [kind |-> "Door", name |-> NoName, state |-> s, rev |-> FALSE, time |-> t]
  /\ lineNo' = lineNo + 1 /\ clock' = t
  /\ IF currentState = "Running" /\ endRunRaises(wheelHalfTimes)
     THEN /\ Crash("ZeroDivisionError")
          /\ UNCHANGED << wheelVars, pokeImg, currentState, doorStates, doorTimes,
                          skipLine >>
     ELSE /\ rotation_intervals' =
               IF currentState = "Running"
               THEN endRun(wheelHalfTimes, currentImg, rotation_intervals)
               ELSE rotation_intervals
          /\ wheelHalfTimes' = WheelBufferAfterDoor(currentState, wheelHalfTimes)
          /\ tickImgs' = WheelBufferAfterDoor(currentState, tickImgs)
          /\ pokeImg' = PokeImgAtDoor(currentState, pokeInProgress, currentImg, pokeImg)
          /\ currentState' = "Poking"
          /\ doorStates' = DoorBufferAfterDoor(doorStates, s)
          /\ doorTimes' = DoorBufferAfterDoor(doorTimes, t)
          /\ skipLine' = FALSE
          /\ UNCHANGED << pc, error >>
  /\ UNCHANGED << fileIdx, header, preset, contrastLevel, erraticIntervals,
                  images, registryVars, heap, pumpStates, pumpTimes,
                  poke_events, curImgName, pokeInProgress, currentImg >>

\* The end of the line loop: the final seal and the pruning pass (853-857).
\* The report writing that follows is outside the model.
EndOfStream ==
  /\ pc = "scan"
  /\ line' = [kind |-> "EOF", name |-> NoName, state |-> "", rev |-> FALSE,
              time |-> clock]
  /\ IF currentState = "Poking"
     THEN IF PokeEventRaises(appearanceTimes, pokeImg)
          THEN /\ Crash("IndexError")
               /\ UNCHANGED << heap, poke_events, rotation_intervals,
                               erraticIntervals >>
          ELSE /\ poke_events' = endPoke(doorStates, doorTimes, pumpTimes,
                                         pumpStates, pokeImg, poke_events)
               /\ heap' = addPokeEvent(heap, Last(poke_events').imageAppearance,
                                       Len(poke_events'))
               /\ rotation_intervals' = pruneRotationIntervals(rotation_intervals)
               /\ erraticIntervals' = ErraticOf(rotation_intervals)
               /\ pc' = "next" /\ UNCHANGED error
     ELSE IF endRunRaises(wheelHalfTimes)
          THEN /\ Crash("ZeroDivisionError")
               /\ UNCHANGED << heap, poke_events, rotation_intervals,
                               erraticIntervals >>
          ELSE /\ rotation_intervals' =
                    pruneRotationIntervals(
                      endRun(wheelHalfTimes, currentImg, rotation_intervals))
               /\ erraticIntervals' =
                    ErraticOf(endRun(wheelHalfTimes, currentImg,
                                     rotation_intervals))
               /\ pc' = "next"
               /\ UNCHANGED << error, heap, poke_events >>
  /\ UNCHANGED << fileIdx, header, preset, contrastLevel,
                  lineNo, clock, images, registryVars, wheelHalfTimes, tickImgs,
                  doorStates, doorTimes, pumpStates, pumpTimes, skipLine,
                  curImgName, pokeInProgress, currentImg, pokeImg, currentState >>

Next ==
  \/ \E h \in Headers : StartFile(h)
  \/ \E h \in Headers : SkipFile(h)
  \/ ReadStarting
  \/ \E n \in Names, t \in NextTimes : ReadImage(n, t)
  \/ \E k \in WheelKinds, t \in NextTimes : ReadWheel(k, t)
  \/ \E s \in {"On", "Off"}, t \in NextTimes : ReadPump(s, t)
  \/ \E s \in {"High", "Low"}, t \in NextTimes : ReadDoor(s, t)
  \/ EndOfStream

Spec == Init /\ [][Next]_vars


\* ================================================================= claims
\* A step that processes a body line of the given kind
LineStep(kind) ==
  pc = "scan" /\ lineNo' = lineNo + 1 /\ line'.kind = kind

\* The step at the end of the line loop
EOFStep == pc = "scan" /\ line'.kind = "EOF"

Declared(n) == \E im \in images : im.name = n

TypeOf(n) == ImageOf(n).imageType

\* C1: an image announcement whose name is that of the most recent accepted
\* announcement (the image of the newest Appearance of the file) creates no
\* Appearance, changes no registry entry and leaves currentImg as it is.
C1_DuplicateAnnouncementIgnored ==
  [][ (LineStep("Image") /\ heap # << >> /\ line'.name = Last(heap).image)
        => /\ heap' = heap
           /\ appearanceLog' = appearanceLog
           /\ appearanceTimes' = appearanceTimes
           /\ appearances' = appearances
           /\ currentImg' = currentImg
           /\ pc' = "scan" ]_vars

\* C1 witness: the second line of a file is an announcement of the name of
\* the only Appearance, at a later time than that Appearance.
C1_Witness ==
  /\ pc = "scan" /\ line.kind = "Image"
  /\ Len(heap) = 1 /\ line.name = heap[1].image
  /\ line.time > heap[1].time
  /\ currentImg = line.name

\* Inside a poke episode: the activity is Poking before and after the line
InEpisode == pc = "scan" /\ currentState = "Poking" /\ currentState' = "Poking"

\* C2 as stated: no line processed inside a poke episode changes pokeImg.
C2_PokeImageFixedInEpisode ==
  [][ (InEpisode /\ lineNo' = lineNo + 1) => pokeImg' = pokeImg ]_vars

\* C2 amended: inside a poke episode pokeImg changes only at a Pump On line,
\* which sets it to the current image; an image announcement, a Door line,
\* a Pump Off line and a Wheel line inside the episode leave it alone.
C2_PokeImageChangesOnlyAtPumpOn ==
  [][ (InEpisode /\ lineNo' = lineNo + 1)
        => IF line'.kind = "Pump" /\ line'.state = "On"
           THEN pokeImg' = currentImg
           ELSE pokeImg' = pokeImg ]_vars

\* C2 witness: an episode that began at the default image, before the only
\* announcement of the file, and whose Pump On line set pokeImg to the
\* image announced meanwhile.
C2_Witness ==
  /\ pc = "scan" /\ currentState = "Poking"
  /\ line.kind = "Pump" /\ line.state = "On"
  /\ doorTimes # << >> /\ Len(heap) = 1
  /\ heap[1].time > doorTimes[1]
  /\ heap[1].image = "r1" /\ pokeImg = "r1"

\* A step that seals a poke episode into a PokeEvent
SealsPoke == Len(poke_events') = Len(poke_events) + 1

\* C3 as stated: a PokeEvent is registered on the Appearance that is active
\* (the newest one) when the episode is sealed.
C3_PokeOnActiveAppearance ==
  [][ SealsPoke
        => /\ heap # << >>
           /\ Last(poke_events').imageAppearance = Len(heap) ]_vars

\* C3 amended: a PokeEvent is registered, once, on the newest Appearance of
\* pokeImg (the image held for the episode) when the episode is sealed, and
\* on no other Appearance.
C3_PokeOnLatestAppearanceOfPokeImage ==
  [][ SealsPoke
        => LET pe == Last(poke_events')
               a == pe.imageAppearance
           IN /\ pe.image = pokeImg
              /\ a \in 1..Len(heap)
              /\ heap[a].image = pokeImg
              /\ \A j \in 1..Len(heap) : heap[j].image = pokeImg => j <= a
              /\ pe.imageAppearanceTime = heap[a].time
              /\ heap' = [heap EXCEPT ![a].poke_events =
                                        Append(@, Len(poke_events'))] ]_vars

\* C3 witness: the end of stream sealed a poke whose Appearance is not the
\* newest one of the file.
C3_Witness ==
  /\ pc = "next" /\ line.kind = "EOF" /\ currentState = "Poking"
  /\ poke_events # << >>
  /\ Last(poke_events).imageAppearance < Len(heap)
  /\ Len(poke_events) \in
       {heap[Last(poke_events).imageAppearance].poke_events[k] :
          k \in 1..Len(heap[Last(poke_events).imageAppearance].poke_events)}


\* C4: after an announcement of a name that the header does not declare,
\* the file is given up and the batch goes on to the next file.
C4_UnknownImageSkipsFile ==
  (line.kind = "Image" /\ ~Declared(line.name))
    => (pc = "next" /\ error = "none")

\* The reward sequence number the k-th Appearance of a file must carry,
\* read off the Appearances created before it.
ExpectedSeqNum(objs, k) ==
  IF TypeOf(objs[k].image) = "CONTROL" THEN 0
  ELSE IF k = 1 THEN 1
  ELSE IF TypeOf(objs[k - 1].image) = "CONTROL" THEN 1
  ELSE objs[k - 1].rewardSeqNum + 1

\* C5: every Appearance of a control image has rewardSeqNum 0; one of a
\* reward image has 1 when the Appearance before it is a control Appearance
\* or there is none, and otherwise one more than the Appearance before it.
C5_RewardSeqNum ==
  \A k \in 1..Len(heap) : heap[k].rewardSeqNum = ExpectedSeqNum(heap, k)

\* C5 witness: reward, reward, control, reward numbered 1, 2, 0, 1
C5_Witness ==
  /\ Len(heap) = 4
  /\ [k \in 1..4 |-> heap[k].rewardSeqNum] = <<1, 2, 0, 1>>
  /\ TypeOf(heap[3].image) = "CONTROL"

\* the newest Appearance is of a reward image and has rewardSeqNum 1
NewestIsFirstReward ==
  /\ heap # << >>
  /\ TypeOf(Last(heap).image) = "REWARD"
  /\ Last(heap).rewardSeqNum = 1

\* C6 as stated: the same reward image announced again right after its
\* Appearance numbered 1 gets a second Appearance, numbered 2.
C6_SameRewardReappearsAsTwo ==
  [][ (LineStep("Image") /\ NewestIsFirstReward /\ line'.name = Last(heap).image)
        => /\ Len(heap') = Len(heap) + 1
           /\ Last(heap').image = line'.name
           /\ Last(heap').rewardSeqNum = 2 ]_vars

\* C6 amended: an announcement of a reward image right after a reward
\* Appearance numbered 1 creates an Appearance numbered 2 when it names
\* another reward image, and creates none when it names the same image.
C6_NextRewardIsTwo ==
  [][ (LineStep("Image") /\ NewestIsFirstReward /\ Declared(line'.name)
         /\ TypeOf(line'.name) = "REWARD")
        => IF line'.name = Last(heap).image
           THEN heap' = heap
           ELSE /\ Len(heap') = Len(heap) + 1
                /\ Last(heap').image = line'.name
                /\ Last(heap').rewardSeqNum = 2 ]_vars

\* C6 witness: two reward Appearances in a row, of different images,
\* numbered 1 and 2, the second just announced
C6_Witness ==
  /\ pc = "scan" /\ line.kind = "Image" /\ Len(heap) = 2
  /\ line.name = heap[2].image
  /\ heap[1].image # heap[2].image
  /\ TypeOf(heap[1].image) = "REWARD" /\ TypeOf(heap[2].image) = "REWARD"
  /\ heap[1].rewardSeqNum = 1 /\ heap[2].rewardSeqNum = 2

\* C7: the end of stream seals once: a PokeEvent of the buffered door and
\* pump samples on pokeImg when the activity is Poking, and otherwise the
\* buffered ticks as the last run (none below 3 ticks) and no PokeEvent.
C7_FinalSeal ==
  [][ EOFStep
        => IF currentState = "Poking"
           THEN /\ Len(poke_events') = Len(poke_events) + 1
                /\ SubSeq(poke_events', 1, Len(poke_events)) = poke_events
                /\ Last(poke_events').image = pokeImg
                /\ Last(poke_events').doorTimes = doorTimes
                /\ Last(poke_events').doorStates = doorStates
                /\ Last(poke_events').pumpTimes = pumpTimes
                /\ Last(poke_events').pumpStates = pumpStates
                /\ rotation_intervals' = pruneRotationIntervals(rotation_intervals)
           ELSE /\ poke_events' = poke_events
                /\ rotation_intervals' =
                     IF Len(wheelHalfTimes) < 3
                     THEN pruneRotationIntervals(rotation_intervals)
                     ELSE pruneRotationIntervals(
                            Append(rotation_intervals,
                                   RotationInterval(wheelHalfTimes, currentImg))) ]_vars

\* C8: the scan of every file starts from a fresh state, and nothing the
\* results of a file refer to was created for an earlier file.
C8_FreshStatePerFile ==
  /\ (pc = "scan" /\ lineNo = 0)
       => /\ appearanceLog = << >>
          /\ \A n \in Names : appearanceTimes[n] = << >> /\ appearances[n] = << >>
          /\ wheelHalfTimes = << >> /\ doorStates = << >> /\ doorTimes = << >>
          /\ pumpStates = << >> /\ pumpTimes = << >>
          /\ poke_events = << >> /\ rotation_intervals = << >>
          /\ ~skipLine /\ ~pokeInProgress /\ currentState = "None"
  /\ pc = "scan"
       => /\ \A i \in 1..Len(appearanceLog) :
               /\ appearanceLog[i][2] \in 1..Len(heap)
               /\ heap[appearanceLog[i][2]].file = fileIdx
          /\ \A n \in Names : \A i \in 1..Len(appearances[n]) :
               /\ appearances[n][i][2] \in 1..Len(heap)
               /\ heap[appearances[n][i][2]].file = fileIdx
          /\ \A i \in 1..Len(poke_events) :
               /\ poke_events[i].imageAppearance \in 1..Len(heap)
               /\ heap[poke_events[i].imageAppearance].file = fileIdx

\* C8 witness: the second file of a batch, scanned up to its first sealed
\* poke
C8_Witness ==
  /\ pc = "scan" /\ fileIdx = 2
  /\ Len(poke_events) = 1 /\ Len(appearanceLog) = 1
  /\ heap[poke_events[1].imageAppearance].file = 2

\* A step that seals the buffered wheel run: a Door line while Running
DoorSealsRun == LineStep("Door") /\ currentState = "Running"

\* C9: a run sealed with fewer than 3 ticks leaves the interval list as it
\* is (the pruned list at the end of stream), and every interval of the
\* list was built from at least 3 ticks.
C9_NoIntervalBelowThreeTicks ==
  /\ [](\A i \in 1..Len(rotation_intervals) :
          Len(rotation_intervals[i].built) >= 3)
  /\ [][ /\ (DoorSealsRun /\ Len(wheelHalfTimes) < 3)
              => rotation_intervals' = rotation_intervals
         /\ (EOFStep /\ currentState # "Poking" /\ Len(wheelHalfTimes) < 3)
              => /\ Len(rotation_intervals') <= Len(rotation_intervals)
                 /\ rotation_intervals' = pruneRotationIntervals(rotation_intervals)
       ]_vars

\* C9 witness: the end of stream sealed a run of one or two ticks and the
\* list holds no interval
C9_Witness ==
  /\ pc = "next" /\ line.kind = "EOF" /\ currentState = "Running"
  /\ Len(wheelHalfTimes) \in {1, 2}
  /\ rotation_intervals = << >>

\* The ticks of h whose speed sample is at most 200 RPM, in order
TicksAtMost200(h) ==
  LET idx == SelectSeq([i \in 1..Len(h) |-> i],
                       LAMBDA i : ~Over200(raw_rpms(h)[i]))
  IN [k \in 1..Len(idx) |-> h[idx[k]]]

\* C10: the surviving ticks of an interval are exactly the ticks, the first
\* and the last included, whose speed sample is at most 200 RPM.
C10_DroppedIffOver200 ==
  \A i \in 1..Len(rotation_intervals) :
    rotation_intervals[i].halfTimes = TicksAtMost200(rotation_intervals[i].built)


\* =================================================== RotationInterval alone
\* RotSpec applies endRun / RotationInterval to one wheel run whose ticks
\* are drawn one at a time: the first at 0, each next one later by one of
\* RotDeltas tenths of a second (0: a repeated timestamp; 1: faster than
\* 200 RPM; 3: exactly 200 RPM at an interior tick; 10: one second;
\* 970: the jump of the run 0, 1, 2, 3, 100, 101, 102 seconds).
RotDeltas == {0, 1, 3, 10, 970}

\* every variable of the scan that a specification of one function leaves
\* at its initial value
IdleVars ==
  << error, fileIdx, lineNo, clock, line, images, appearanceTimes, appearances,
     appearanceLog, heap, skipLine, curImgName, pokeInProgress, pokeImg,
     currentState, header, preset, contrastLevel >>

IdleInit ==
  /\ error = "none" /\ fileIdx = 0 /\ lineNo = 0 /\ clock = 0 /\ line = NoLine
  /\ images = {}
  /\ appearanceTimes = [n \in Names |-> << >>]
  /\ appearances = [n \in Names |-> << >>]
  /\ appearanceLog = << >> /\ heap = << >>
  /\ skipLine = FALSE /\ curImgName = NoName /\ pokeInProgress = FALSE
  /\ pokeImg = NoName /\ currentState = "None" /\ header = NoHeader
  /\ preset = NoPreset /\ contrastLevel = << >>

RotInit ==
  /\ IdleInit
  /\ pc = "rot" /\ currentImg = "c1"
  /\ wheelHalfTimes = << >> /\ rotation_intervals = << >>
  /\ tickImgs = << >>
  /\ doorStates = << >> /\ doorTimes = << >>
  /\ pumpStates = << >> /\ pumpTimes = << >> /\ poke_events = << >>
  /\ erraticIntervals = << >>

\* wheelHalfTimes.append(t) (line 823)
RotTick(d) ==
  /\ pc = "rot" /\ Len(wheelHalfTimes) < MaxTicks
  /\ wheelHalfTimes' =
       Append(wheelHalfTimes,
              IF wheelHalfTimes = << >> THEN 0 ELSE Last(wheelHalfTimes) + d)
  /\ tickImgs' = Append(tickImgs, currentImg)
  /\ UNCHANGED << pc, IdleVars, currentImg, rotation_intervals, pokeVars,
                  erraticIntervals >>

\* endRun(wheelHalfTimes, image, rotation_intervals) (lines 554-557)
RotSeal ==
  /\ pc = "rot"
  /\ IF endRunRaises(wheelHalfTimes)
     THEN /\ Crash("ZeroDivisionError")
          /\ UNCHANGED rotation_intervals
     ELSE /\ rotation_intervals' =
               endRun(wheelHalfTimes, currentImg, rotation_intervals)
          /\ pc' = "rotdone" /\ UNCHANGED error
  /\ UNCHANGED << fileIdx, header, preset, contrastLevel, erraticIntervals,
                  lineNo, clock, line, images, appearanceTimes,
                  appearances, appearanceLog, heap, skipLine, curImgName,
                  pokeInProgress, pokeImg, currentState, currentImg,
                  wheelHalfTimes, tickImgs, pokeVars >>

RotNext ==
  \/ \E d \in RotDeltas : RotTick(d)
  \/ RotSeal

RotSpec == RotInit /\ [][RotNext]_vars

\* the run 0, 1, 2, 3, 100, 101, 102 seconds, in tenths of a second
JumpRun == <<0, 10, 20, 30, 1000, 1010, 1020>>

\* the sample at tick i of the run h is over 200 RPM
SampleOver200(h, i) == Over200(raw_rpms(h)[i])

\* the ticks of h at the positions of the set idx, in order
TicksAt(h, idx) ==
  LET pos == SelectSeq([i \in 1..Len(h) |-> i], LAMBDA i : i \in idx)
  IN [k \in 1..Len(pos) |-> h[pos[k]]]

\* the run has a gap of more than a minute between two consecutive ticks
HasLargeGap(h) == \E i \in 1..(Len(h) - 1) : h[i + 1] - h[i] > 600

\* the interior ticks of h that lie less than 0.3 s from tick to tick
\* around them
SmallGapTicks(h) ==
  {i \in 2..(Len(h) - 1) : h[i + 1] - h[i - 1] > 0 /\ h[i + 1] - h[i - 1] < 3}

\* C11 as stated: a run with an abnormally large gap between consecutive
\* ticks has a sample over 200 RPM, and fewer ticks survive than the run
\* has.
C11_LargeGapIsErratic ==
  \A k \in 1..Len(rotation_intervals) :
    LET ri == rotation_intervals[k] IN
    HasLargeGap(ri.built)
      => /\ \E i \in 1..Len(ri.built) : SampleOver200(ri.built, i)
         /\ \E i \in 2..(Len(ri.built) - 1) :
              /\ SampleOver200(ri.built, i)
              /\ ri.halfTimes = TicksAt(ri.built, (2..(Len(ri.built) - 1)) \ {i})

\* C11 amended: the samples over 200 RPM come from abnormally small gaps:
\* an interior tick is removed, with its sample, exactly when the ticks
\* around it are less than 0.3 s apart; a large gap gives a low sample and
\* removes nothing (of the run 0, 1, 2, 3, 100, 101, 102 all interior
\* ticks survive).
C11_SmallGapIsErratic ==
  \A k \in 1..Len(rotation_intervals) :
    LET ri == rotation_intervals[k]
        h == ri.built
        keep == (2..(Len(h) - 1)) \ SmallGapTicks(h)
    IN /\ ri.halfTimes = TicksAt(h, keep)
       /\ Len(ri.rpms) = Len(ri.halfTimes)
       /\ \A i \in 2..(Len(h) - 1) :
            SampleOver200(h, i) <=> i \in SmallGapTicks(h)
       /\ h = JumpRun => ri.halfTimes = <<10, 20, 30, 1000, 1010>>

\* C11 witness: a run with a large gap and with an interior tick between
\* two ticks 0.2 s apart has been sealed: only that tick was removed
C11_Witness ==
  /\ pc = "rotdone" /\ Len(rotation_intervals) = 1
  /\ rotation_intervals[1].built = <<0, 1, 2, 12, 982, 992>>
  /\ rotation_intervals[1].halfTimes = <<2, 12, 982>>


\* C12: the surviving tick times and the surviving speeds of every
\* RotationInterval have the same length, and the k-th speed is the sample
\* computed at the tick that is the k-th surviving tick, the positions
\* going up with k.
C12_ArraysAligned ==
  \A n \in 1..Len(rotation_intervals) :
    LET ri == rotation_intervals[n]
        h == ri.built
        At(k, i) == h[i] = ri.halfTimes[k] /\ raw_rpms(h)[i] = ri.rpms[k]
    IN /\ Len(ri.rpms) = Len(ri.halfTimes)
       /\ \A k \in 1..Len(ri.halfTimes) :
            \E i \in 1..Len(h) :
              /\ At(k, i)
              /\ k > 1 => \E j \in 1..(i - 1) : At(k - 1, j)

\* C12 witness: an interval whose third tick was removed has been sealed;
\* four ticks and their four samples are left
C12_Witness ==
  /\ pc = "rotdone" /\ Len(rotation_intervals) = 1
  /\ rotation_intervals[1].built = <<0, 10, 11, 12, 22, 992, 1002>>
  /\ rotation_intervals[1].halfTimes = <<10, 12, 22, 992>>
  /\ rotation_intervals[1].rpms =
       << <<600, 11>>, <<600, 11>>, <<600, 980>>, <<600, 980>> >>

\* C13: viable is False exactly when fewer than 2 tick times survived.
C13_ViableIffTwoSurvive ==
  \A n \in 1..Len(rotation_intervals) :
    rotation_intervals[n].viable = FALSE
      <=> Len(rotation_intervals[n].halfTimes) < 2

\* C13 witness: an interval with exactly one surviving tick has been
\* sealed and is flagged not viable
C13_Witness ==
  /\ pc = "rotdone" /\ Len(rotation_intervals) = 1
  /\ rotation_intervals[1].built = <<0, 1, 2, 12>>
  /\ rotation_intervals[1].halfTimes = <<2>>
  /\ rotation_intervals[1].viable = FALSE

\* C14: startTime is the first tick of the sequence the interval was built
\* from, and midTime the average of that sequence's first and last tick.
C14_StartAndMidOfBuiltTicks ==
  \A n \in 1..Len(rotation_intervals) :
    LET ri == rotation_intervals[n] IN
    /\ ~startTimeRaises(ri)
    /\ startTime(ri) = ri.built[1]
    /\ midTime(ri) = <<ri.built[1] + Last(ri.built), 2>>


\* =============================================== pruneRotationIntervals alone
\* PruneSpec builds a list of intervals with endRun from the tick runs of
\* PruneRuns and hands it to pruneRotationIntervals, twice. Of the runs (in
\* tenths of a second) the first two give a viable interval (two and three
\* surviving ticks), the others one surviving tick or none.
PruneRuns ==
  { <<0, 10, 20, 30>>, <<0, 10, 20, 30, 40>>, <<0, 10, 20>>, <<0, 1, 2>>,
    <<0, 1, 2, 12>> }

PruneInit ==
  /\ IdleInit
  /\ pc = "build" /\ currentImg = "c1"
  /\ wheelHalfTimes = << >> /\ rotation_intervals = << >>
  /\ tickImgs = << >>
  /\ doorStates = << >> /\ doorTimes = << >>
  /\ pumpStates = << >> /\ pumpTimes = << >> /\ poke_events = << >>
  /\ erraticIntervals = << >>

\* endRun(run, image, rotation_intervals) (lines 554-557)
PruneAdd(run) ==
  /\ pc = "build" /\ Len(rotation_intervals) < MaxIntervals
  /\ rotation_intervals' = endRun(run, currentImg, rotation_intervals)
  /\ UNCHANGED << pc, IdleVars, currentImg, wheelHalfTimes, tickImgs, pokeVars,
                  erraticIntervals >>

\* pruneRotationIntervals(rotation_intervals) (lines 564-570)
PrunePass ==
  /\ pc \in {"build", "pruned1"}
  /\ erraticIntervals' = ErraticOf(rotation_intervals)
  /\ rotation_intervals' = pruneRotationIntervals(rotation_intervals)
  /\ pc' = IF pc = "build" THEN "pruned1" ELSE "pruned2"
  /\ UNCHANGED << IdleVars, currentImg, wheelHalfTimes, tickImgs, pokeVars >>

PruneNext ==
  \/ \E run \in PruneRuns : PruneAdd(run)
  \/ PrunePass

PruneSpec == PruneInit /\ [][PruneNext]_vars

\* the positions of the viable intervals of a list
ViablePositions(intervals) ==
  {i \in 1..Len(intervals) : intervals[i].viable}

\* C15: a pruning pass removes exactly the intervals whose viable flag is
\* False: the list afterwards has one entry per viable interval of the list
\* before, each the unchanged interval, at the rank it had among the
\* viable ones.
C15_PruneRemovesExactlyNonViable ==
  [][ (pc = "build" /\ pc' = "pruned1")
        => LET keep == ViablePositions(rotation_intervals) IN
           /\ Len(rotation_intervals') = Cardinality(keep)
           /\ \A i \in keep :
                rotation_intervals'[Cardinality({j \in keep : j <= i})]
                  = rotation_intervals[i]
           /\ \A k \in 1..Len(rotation_intervals') :
                rotation_intervals'[k].viable ]_vars

\* C15 witness: a list of three intervals was pruned: the non-viable one is
\* gone and the two viable ones are left in their order
C15_Witness ==
  /\ pc = "pruned1"
  /\ Len(erraticIntervals) = 1 /\ erraticIntervals[1].built = <<0, 10, 20>>
  /\ Len(rotation_intervals) = 2
  /\ rotation_intervals[1].built = <<0, 10, 20, 30, 40>>
  /\ rotation_intervals[2].built = <<0, 10, 20, 30>>

\* C16: pruning is idempotent: a second pass over a pruned list removes
\* nothing and leaves the list as the first pass left it.
C16_PruneIdempotent ==
  [][ (pc = "pruned1" /\ pc' = "pruned2")
        => /\ rotation_intervals' = rotation_intervals
           /\ erraticIntervals' = << >> ]_vars

\* C16 witness: the second pass has run over a list that still holds
\* intervals
C16_Witness ==
  /\ pc = "pruned2" /\ erraticIntervals = << >>
  /\ Len(rotation_intervals) = 2
  /\ rotation_intervals[1].built # rotation_intervals[2].built


\* ========================================================== PokeEvent alone
\* PokeSpec constructs one PokeEvent: the image r1 has appeared once, at a
\* time of PokeAppearTimes; door and pump samples with times of PokeTimes
\* (tenths of a second, each array strictly increasing) are collected and
\* endPoke seals them. The times hold the pump-on at 10.000 s after an
\* appearance at 9.000 s, and the doors 20, 40, 55, 85 around a pump-on at
\* 50 with the window end 80.
PokeAppearTimes == {0, 90}

PokeTimes == {100, 200, 400, 500, 550, 800, 850}

\* the grace periods totalPokesNoTimeout is called with
PokeGraces == {DefaultGrace, 50}

PokeInit ==
  /\ pc = "poke" /\ error = "none" /\ fileIdx = 1 /\ lineNo = 1
  /\ header \in {h \in Headers : HasSentinel(h)}
  /\ preset = initializePreset(header) /\ contrastLevel = << >>
  /\ images = HeaderImages(header)
  /\ clock \in PokeAppearTimes
  /\ line = [kind |-> "Image", name |-> "r1", state |-> "", rev |-> FALSE,
             time |-> clock]
  /\ appearanceTimes = [n \in Names |-> IF n = "r1" THEN <<clock>> ELSE << >>]
  /\ appearances = [n \in Names |-> IF n = "r1" THEN << <<clock, 1>> >> ELSE << >>]
  /\ appearanceLog = << <<clock, 1>> >>
  /\ heap = << Appearance("r1", clock, "c1", appearanceTimes,
                          [n \in Names |-> << >>], << >>) >>
  /\ skipLine = FALSE /\ curImgName = "r1" /\ pokeInProgress = FALSE
  /\ currentImg = "r1" /\ pokeImg = "r1" /\ currentState = "Poking"
  /\ wheelHalfTimes = << >> /\ rotation_intervals = << >>
  /\ tickImgs = << >>
  /\ doorStates = << >> /\ doorTimes = << >>
  /\ pumpStates = << >> /\ pumpTimes = << >> /\ poke_events = << >>
  /\ erraticIntervals = << >>

\* the variables no action of PokeSpec changes
PokeFrame ==
  << error, fileIdx, lineNo, clock, line, images, registryVars, skipLine,
     curImgName, pokeInProgress, currentImg, pokeImg, currentState, header,
     preset, contrastLevel, wheelVars, erraticIntervals >>

\* doorStates.append, doorTimes.append (lines 847-850)
PokeDoor(s, t) ==
  /\ pc = "poke" /\ Len(doorTimes) < MaxDoors
  /\ IF doorTimes = << >> THEN TRUE ELSE Last(doorTimes) < t
  /\ doorStates' = Append(doorStates, s) /\ doorTimes' = Append(doorTimes, t)
  /\ UNCHANGED << pc, PokeFrame, heap, pumpStates, pumpTimes, poke_events >>

\* pumpStates.append, pumpTimes.append (lines 836-838)
PokePump(s, t) ==
  /\ pc = "poke" /\ Len(pumpTimes) < MaxPumps
  /\ IF pumpTimes = << >> THEN TRUE ELSE Last(pumpTimes) < t
  /\ pumpStates' = Append(pumpStates, s) /\ pumpTimes' = Append(pumpTimes, t)
  /\ UNCHANGED << pc, PokeFrame, heap, doorStates, doorTimes, poke_events >>

\* endPoke(doorStates, doorTimes, pumpTimes, pumpStates, pokeImg, poke_events)
PokeSeal ==
  /\ pc = "poke"
  /\ poke_events' = endPoke(doorStates, doorTimes, pumpTimes, pumpStates,
                            pokeImg, poke_events)
  /\ heap' = addPokeEvent(heap, Last(poke_events').imageAppearance,
                          Len(poke_events'))
  /\ pc' = "pokedone"
  /\ UNCHANGED << PokeFrame, doorStates, doorTimes, pumpStates, pumpTimes >>

PokeNext ==
  \/ \E s \in {"High", "Low"}, t \in PokeTimes : PokeDoor(s, t)
  \/ \E s \in {"On", "Off"}, t \in PokeTimes : PokePump(s, t)
  \/ PokeSeal

PokeSpec == PokeInit /\ [][PokeNext]_vars

\* the times of the pump-on samples of a PokeEvent
PumpOnTimes(pe) ==
  {pe.pumpTimes[i] : i \in {j \in 1..Len(pe.pumpStates) : pe.pumpStates[j] = "On"}}

\* C17: a PokeEvent with exactly one pump-on has the latency (pump-on time
\* minus 0.003 s) minus the time of the Appearance it is registered on, in
\* milliseconds; pump-on at 10.000 after an appearance at 9.000 gives 997;
\* with no or with more than one pump-on the latency is None.
C17_LatencyOfSinglePumpOn ==
  \A k \in 1..Len(poke_events) :
    LET pe == poke_events[k]
        app == heap[pe.imageAppearance]
        nOn == Cardinality({j \in 1..Len(pe.pumpStates) : pe.pumpStates[j] = "On"})
    IN /\ nOn = 1 =>
            \E t \in PumpOnTimes(pe) : pe.latency = <<100 * t - 3 - 100 * app.time>>
       /\ nOn # 1 => pe.latency = << >>
       /\ (PumpOnTimes(pe) = {100} /\ nOn = 1 /\ app.time = 90)
            => pe.latency = <<997>>

\* C17 witness: an event with the one pump-on at 10.000 s, registered on
\* the appearance at 9.000 s, has been sealed with a latency of 997 ms
C17_Witness ==
  /\ pc = "pokedone" /\ Len(poke_events) = 1
  /\ poke_events[1].pumpStates = <<"On", "Off">>
  /\ poke_events[1].pumpTimes = <<100, 200>>
  /\ heap[poke_events[1].imageAppearance].time = 90
  /\ poke_events[1].latency = <<997>>

\* the result of totalPokesNoTimeout(g) the description of C18 gives for
\* the arrays of a PokeEvent
ExpectedNoTimeout(pe, g) ==
  LET ons == PumpOnTimes(pe)
      nOn == Cardinality({j \in 1..Len(pe.pumpStates) : pe.pumpStates[j] = "On"})
  IN IF nOn # 1
     THEN Cardinality({j \in 1..Len(pe.doorStates) : pe.doorStates[j] = "Low"})
     ELSE LET c == CHOOSE t \in ons : TRUE
              n == Cardinality({j \in 1..Len(pe.doorTimes) :
                                  ~(c < pe.doorTimes[j] /\ pe.doorTimes[j] <= c + g)})
          IN IF n % 2 = 0 THEN n \div 2 ELSE n \div 2 + 1

\* C18: totalPokesNoTimeout(grace) is the number of door-Low samples when
\* the event has no or more than one pump-on; with exactly one pump-on at
\* c it is ceil(n / 2) for n the number of door times outside (c, c + grace]:
\* a door time at c counts, one at c + grace does not; pump-on 50, grace
\* 30, doors 20, 40, 55, 85 gives 2.
C18_TotalPokesNoTimeout ==
  \A k \in 1..Len(poke_events) :
    LET pe == poke_events[k]
        Total(g) == totalPokesNoTimeout(pe.doorStates, pe.doorTimes,
                                        pe.pumpTimes, pe.pumpStates, g)
    IN /\ \A g \in PokeGraces : Total(g) = ExpectedNoTimeout(pe, g)
       /\ (/\ pe.doorTimes = <<200, 400, 550, 850>>
           /\ PumpOnTimes(pe) = {500} /\ Len(pe.pumpTimes) = 1)
            => Total(DefaultGrace) = 2

\* C18 witness: the event with pump-on at 50 and doors at 20, 50, 80, 85
\* has been sealed: the door at 50 counts, the one at 80 does not
C18_Witness ==
  /\ pc = "pokedone" /\ Len(poke_events) = 1
  /\ poke_events[1].pumpStates = <<"On">> /\ poke_events[1].pumpTimes = <<500>>
  /\ poke_events[1].doorTimes = <<200, 500, 800, 850>>
  /\ poke_events[1].doorStates = <<"Low", "High", "Low", "High">>
  /\ totalPokesNoTimeout(poke_events[1].doorStates, poke_events[1].doorTimes,
                         poke_events[1].pumpTimes, poke_events[1].pumpStates,
                         DefaultGrace) = 2


\* the places <<a, i>> where the Appearance objects hold the PokeEvent k
PlacesOf(k) ==
  {p \in (1..Len(heap)) \X (1..Len(poke_events)) :
     /\ p[2] <= Len(heap[p[1]].poke_events)
     /\ heap[p[1]].poke_events[p[2]] = k}

\* s is a prefix of t
IsPrefix(s, t) == Len(s) <= Len(t) /\ \A i \in 1..Len(s) : s[i] = t[i]

\* C19: every PokeEvent is on the poke-event list of exactly one
\* Appearance, once, and that Appearance is one of the event's image; while
\* a file is scanned the poke-event list of every Appearance only grows at
\* its end.
C19_PokeEventOnOneAppearanceOnce ==
  /\ [](\A k \in 1..Len(poke_events) :
          /\ Cardinality(PlacesOf(k)) = 1
          /\ \A p \in PlacesOf(k) :
               /\ p[1] = poke_events[k].imageAppearance
               /\ heap[p[1]].image = poke_events[k].image)
  /\ [][ pc = "scan"
           => \A a \in 1..Len(heap) :
                /\ a <= Len(heap')
                /\ IsPrefix(heap[a].poke_events, heap'[a].poke_events) ]_vars

\* C19 witness: two PokeEvents have been constructed in the file and the
\* one Appearance of their image holds both, in the order of construction
C19_Witness ==
  /\ Len(poke_events) = 2 /\ Len(heap) = 1
  /\ heap[1].poke_events = <<1, 2>>
  /\ poke_events[1].image = heap[1].image
  /\ poke_events[2].image = heap[1].image


\* the header of the current file has no "Start of experiment" line
NoSentinel == header \in Headers /\ ~header.sentinel

\* C20: a file whose header has no "Start of experiment" line yields
\* nothing: no body line is processed, no Appearance, PokeEvent or
\* RotationInterval is created, no exception leaves analyze, and the loop
\* is back between files, ready for the next one.
C20_NoSentinelFileYieldsNothing ==
  /\ [](NoSentinel
          => /\ pc = "next" /\ error = "none" /\ line = NoLine
             /\ appearanceLog = << >> /\ poke_events = << >>
             /\ rotation_intervals = << >>)
  /\ [][ (pc = "next" /\ fileIdx' = fileIdx + 1 /\ ~header'.sentinel)
           => /\ pc' = "next" /\ error' = error
              /\ lineNo' = lineNo /\ heap' = heap ]_vars

\* C20 witness: the second file of the batch had no sentinel and was
\* passed over, after a first file in which an image had appeared
C20_Witness ==
  /\ NoSentinel /\ fileIdx = 2 /\ pc = "next"
  /\ heap # << >> /\ lineNo > 0


\* ============================================== the preset of the header
\* PresetSpec is the scan over files whose headers differ in the preset
\* line: none, or one with the text of PresetTexts after 'preset: '.
DayText == <<"d", "a", "y">>
NightText == <<"n", "i", "g", "h", "t", " ", "3">>
SpatialText == <<"S", "P", "A", "T", "I", "A", "L", " ", "2">>

PresetTexts == {ContrastText, SpatialText, NightText, DayText}

PresetHeaders ==
  { [sentinel |-> TRUE, control |-> ControlNames, reward |-> RewardNames,
     hasPreset |-> TRUE, presetText |-> t] : t \in PresetTexts }
  \cup
  { [sentinel |-> b, control |-> ControlNames, reward |-> RewardNames,
     hasPreset |-> FALSE, presetText |-> << >>] : b \in BOOLEAN }

PresetNext ==
  \/ \E h \in PresetHeaders : StartFile(h)
  \/ \E h \in PresetHeaders : SkipFile(h)
  \/ lineNo < PresetLines /\ ReadStarting
  \/ \E n \in Names, t \in NextTimes : lineNo < PresetLines /\ ReadImage(n, t)
  \/ \E k \in WheelKinds, t \in NextTimes : lineNo < PresetLines /\ ReadWheel(k, t)
  \/ \E s \in {"On", "Off"}, t \in NextTimes : lineNo < PresetLines /\ ReadPump(s, t)
  \/ \E s \in {"High", "Low"}, t \in NextTimes : lineNo < PresetLines /\ ReadDoor(s, t)
  \/ EndOfStream

PresetSpec == Init /\ [][PresetNext]_vars

\* the header of the current file has the sentinel and no preset line, or
\* one whose text matches no known preset
NoKnownPreset ==
  /\ header \in PresetHeaders /\ header.sentinel
  /\ ~header.hasPreset \/ header.presetText = DayText

\* C21 as stated: the body of a file whose header has no preset that
\* matches a known one is not processed.
C21_NoPresetSkipsFile ==
  NoKnownPreset => pc # "scan" /\ line = NoLine

\* the preset a header of PresetHeaders stands for
ExpectedPreset(h) ==
  IF ~h.hasPreset THEN [enum |-> "", text |-> << >>]
  ELSE IF h.presetText = ContrastText THEN [enum |-> "CONTRAST", text |-> << >>]
  ELSE IF h.presetText = SpatialText THEN [enum |-> "SPATIAL", text |-> << >>]
  ELSE IF h.presetText = NightText THEN [enum |-> "NIGHT_3", text |-> << >>]
  ELSE [enum |-> "", text |-> h.presetText]

\* C21 amended: the preset does not decide whether a file is processed. A
\* header with the sentinel starts the scan of the body whatever its
\* preset; the preset returned is the known preset the text matches, the
\* text itself when it matches none, and '' when there is no preset line.
C21_BodyProcessedWhateverPreset ==
  /\ []((header \in PresetHeaders /\ header.sentinel)
          => preset = ExpectedPreset(header))
  /\ [][ (pc = "next" /\ fileIdx' = fileIdx + 1 /\ header'.sentinel)
           => pc' = "scan" /\ lineNo' = 0 ]_vars

\* C21 witness: a Door line of a file without a preset line has been
\* processed
C21_Witness ==
  /\ NoKnownPreset /\ ~header.hasPreset /\ preset = NoPreset
  /\ pc = "scan" /\ line.kind = "Door" /\ doorTimes # << >>


\* ======================================================== getContrast alone
\* ContrastSpec applies getContrast to one image whose name is a word of
\* ContrastWords followed by up to MaxNameTail characters of TailChars.
ContrastWords ==
  { << >>, <<"i", "m", "g">>, NegativeText,
    <<"N", "e", "g", "a", "t", "i", "v", "e">>,
    <<"x", "N", "E", "G", "A", "T", "I", "V", "E">>,
    <<"n", "e", "g", "a", "t", "i", "v">> }

TailChars == {"0", "1", "2", "4", "5", "7", "_"}

\* the one image of ContrastSpec
TheImage == CHOOSE im \in images : TRUE

ContrastInit ==
  /\ pc = "contrast" /\ error = "none" /\ fileIdx = 0 /\ lineNo = 0
  /\ clock = 0 /\ line = NoLine
  /\ \E w \in ContrastWords, ty \in {"CONTROL", "REWARD"} :
       images = {[name |-> w, imageType |-> ty]}
  /\ appearanceTimes = [n \in Names |-> << >>]
  /\ appearances = [n \in Names |-> << >>]
  /\ appearanceLog = << >> /\ heap = << >>
  /\ skipLine = FALSE /\ curImgName = NoName /\ pokeInProgress = FALSE
  /\ pokeImg = NoName /\ currentState = "None" /\ header = NoHeader
  /\ preset = NoPreset /\ currentImg = NoName
  /\ wheelHalfTimes = << >> /\ rotation_intervals = << >>
  /\ tickImgs = << >>
  /\ doorStates = << >> /\ doorTimes = << >>
  /\ pumpStates = << >> /\ pumpTimes = << >> /\ poke_events = << >>
  /\ erraticIntervals = << >> /\ contrastLevel = << >>

\* the variables no action of ContrastSpec changes
ContrastFrame ==
  << error, fileIdx, lineNo, clock, line, registryVars, heap, skipLine, curImgName,
     pokeInProgress, currentImg, pokeImg, currentState, header, preset,
     wheelVars, pokeVars, erraticIntervals >>

\* the characters of TailChars in a name
TailOf(name) == SelectSeq(name, LAMBDA c : c \in TailChars)

\* one more character in the name of the image (Image(img.strip(), ...),
\* lines 742 and 745)
ContrastChar(c) ==
  /\ pc = "contrast" /\ Len(TailOf(TheImage.name)) < MaxNameTail
  /\ images' = {[im EXCEPT !.name = Append(@, c)] : im \in images}
  /\ UNCHANGED << pc, ContrastFrame, contrastLevel >>

\* contrastLevel = getContrast(ap.image) (line 379)
ContrastApply ==
  /\ pc = "contrast"
  /\ contrastLevel' = <<getContrast(TheImage)>>
  /\ pc' = "contrastdone"
  /\ UNCHANGED << ContrastFrame, images >>

ContrastNext ==
  \/ \E c \in TailChars : ContrastChar(c)
  \/ ContrastApply

ContrastSpec == ContrastInit /\ [][ContrastNext]_vars


\* 10 to the power n
Pow10(n) == LET f[i \in 0..n] == IF i = 0 THEN 1 ELSE 10 * f[i - 1] IN f[n]

\* the decimal digits of a name, in order, read as one number
DigitsNumber(name) ==
  LET pos == SelectSeq([i \in 1..Len(name) |-> i],
                       LAMBDA i : name[i] \in {"0", "1", "2", "3", "4", "5", "6",
                                               "7", "8", "9"})
      Val(c) == CHOOSE v \in 0..9 : DigitChars[v + 1] = c
      Term(k) == Val(name[pos[k]]) * Pow10(Len(pos) - k)
      Sum[k \in 0..Len(pos)] == IF k = 0 THEN 0 ELSE Sum[k - 1] + Term(k)
  IN IF pos = << >> THEN 100 ELSE Sum[Len(pos)]

\* the name holds "negative" in some letter case
HoldsNegative(name) ==
  \E i \in 1..Len(name) :
    /\ i + 7 <= Len(name)
    /\ name[i] \in {"n", "N"} /\ name[i + 1] \in {"e", "E"}
    /\ name[i + 2] \in {"g", "G"} /\ name[i + 3] \in {"a", "A"}
    /\ name[i + 4] \in {"t", "T"} /\ name[i + 5] \in {"i", "I"}
    /\ name[i + 6] \in {"v", "V"} /\ name[i + 7] \in {"e", "E"}

\* the table of contrast levels, by cases
LevelOf(v) ==
  CASE v = 7 -> 8 [] v = 14 -> 16 [] v = 27 -> 32 [] v = 52 -> 64
    [] OTHER -> v

\* C22: getContrast depends on the image name only: 0 when the name holds
\* "negative" in any letter case; otherwise the digits of the name read as
\* one number, 100 when there is none, mapped through the table 1:1, 2:2,
\* 4:4, 7:8, 14:16, 27:32, 52:64, 100:100 and left as it is when it is no
\* key.
C22_GetContrast ==
  pc = "contrastdone"
    => LET name == TheImage.name IN
       /\ contrastLevel = <<IF HoldsNegative(name) THEN 0
                            ELSE LevelOf(DigitsNumber(name))>>
       /\ name = <<"i", "m", "g", "_", "1", "4">> => contrastLevel = <<16>>
       /\ name = <<"i", "m", "g", "0", "7">> => contrastLevel = <<8>>
       /\ name = <<"i", "m", "g", "5">> => contrastLevel = <<5>>
       /\ name = <<"i", "m", "g">> => contrastLevel = <<100>>

\* C22 witness: the name img_52 has been mapped to the level 64
C22_Witness ==
  /\ pc = "contrastdone"
  /\ TheImage.name = <<"i", "m", "g", "_", "5", "2">>
  /\ contrastLevel = <<64>>


\* ------------------------------------------------- the line handlers of Spec
\* a Wheel line is read while no poke is in progress and the flag is clear
WheelProcessed == LineStep("Wheel") /\ ~pokeInProgress /\ ~skipLine

\* C23: a Wheel line read while no poke is in progress and the skip flag is
\* clear seals, when the activity was Poking, exactly one PokeEvent from the
\* buffered door and pump samples, attributed to pokeImg, and empties those
\* buffers; in all cases the activity becomes Running and the timestamp is
\* appended to the wheel buffer when the line carries a tick.
C23_WheelLineSealsPokeAndRuns ==
  [][ WheelProcessed
        => /\ currentState' = "Running"
           /\ wheelHalfTimes' = IF line'.state = "Tick"
                                THEN Append(wheelHalfTimes, line'.time)
                                ELSE wheelHalfTimes
           /\ IF currentState = "Poking"
              THEN /\ Len(poke_events') = Len(poke_events) + 1
                   /\ SubSeq(poke_events', 1, Len(poke_events)) = poke_events
                   /\ Last(poke_events').doorStates = doorStates
                   /\ Last(poke_events').doorTimes = doorTimes
                   /\ Last(poke_events').pumpStates = pumpStates
                   /\ Last(poke_events').pumpTimes = pumpTimes
                   /\ Last(poke_events').image = pokeImg
                   /\ doorStates' = << >> /\ doorTimes' = << >>
                   /\ pumpStates' = << >> /\ pumpTimes' = << >>
              ELSE UNCHANGED pokeVars ]_vars

\* C24: a Door line seals, when the activity was Running, the buffered
\* wheel run for currentImg and empties the wheel buffer; sets pokeImg to
\* currentImg when the activity was not Poking and no poke is in progress;
\* then the activity is Poking and the door sample is appended to the door
\* buffers.
C24_DoorLineSealsRunAndPokes ==
  [][ LineStep("Door")
        => /\ IF currentState = "Running"
              THEN /\ wheelHalfTimes' = << >>
                   /\ IF Len(wheelHalfTimes) >= 3
                      THEN /\ Len(rotation_intervals') = Len(rotation_intervals) + 1
                           /\ Last(rotation_intervals').built = wheelHalfTimes
                           /\ Last(rotation_intervals').image = currentImg
                      ELSE rotation_intervals' = rotation_intervals
              ELSE /\ wheelHalfTimes' = wheelHalfTimes
                   /\ rotation_intervals' = rotation_intervals
           /\ pokeImg' = IF currentState # "Poking" /\ ~pokeInProgress
                         THEN currentImg ELSE pokeImg
           /\ currentState' = "Poking"
           /\ doorStates' = Append(doorStates, line'.state)
           /\ doorTimes' = Append(doorTimes, line'.time) ]_vars


\* a Wheel line is read and has no effect: no tick appended, no poke sealed,
\* the activity as it was, the flag clear afterwards, the scan going on
WheelIgnored ==
  /\ LineStep("Wheel") /\ pc' = "scan"
  /\ wheelHalfTimes' = wheelHalfTimes /\ poke_events' = poke_events
  /\ UNCHANGED << doorStates, doorTimes, pumpStates, pumpTimes >>
  /\ currentState' = currentState /\ skipLine' = FALSE

\* C25 as stated: a Wheel line is ignored entirely exactly when the skip
\* flag is set.
C25_WheelIgnoredIffFlagSet ==
  [][ LineStep("Wheel") => (WheelIgnored <=> skipLine) ]_vars

\* C25 amended: a Wheel line is ignored entirely exactly when the skip flag
\* is set or a poke is in progress; the flag is set after a line only when
\* that line was a Wheel line with "revolution" read with the flag clear
\* and no poke in progress, or a "starting" line read with the flag set; so
\* a revolution line suppresses at most the one line that follows it.
C25_WheelIgnoredIffFlagOrPoke ==
  /\ [][ LineStep("Wheel") => (WheelIgnored <=> (skipLine \/ pokeInProgress)) ]_vars
  /\ [][ (pc = "scan" /\ lineNo' = lineNo + 1 /\ pc' = "scan" /\ skipLine')
           => \/ /\ line'.kind = "Wheel" /\ line'.rev
                 /\ ~skipLine /\ ~pokeInProgress
              \/ line'.kind = "starting" /\ skipLine ]_vars

\* C25 witness: the second line of the file, a Wheel tick, was read after a
\* revolution line and left no tick in the buffer
C25_Witness ==
  /\ pc = "scan" /\ lineNo = 2 /\ line.kind = "Wheel" /\ line.state = "Tick"
  /\ ~pokeInProgress /\ currentState = "Running"
  /\ wheelHalfTimes = << >> /\ ~skipLine

\* C26: pokeInProgress is set by a Pump On line and cleared by a Pump Off
\* line and by nothing else in the body; a Wheel line read while it is set
\* seals no PokeEvent, leaves the activity, pokeImg and the buffers as they
\* are and appends no tick; a Wheel line read while it is clear (and the
\* skip flag is clear) is processed: the activity becomes Running.
C26_WheelInertWhilePokeInProgress ==
  /\ [][ (pc = "scan" /\ lineNo' = lineNo + 1)
           => pokeInProgress' = IF line'.kind = "Pump" THEN line'.state = "On"
                                ELSE pokeInProgress ]_vars
  /\ [][ (LineStep("Wheel") /\ pokeInProgress)
           => /\ poke_events' = poke_events /\ heap' = heap
              /\ currentState' = currentState /\ pokeImg' = pokeImg
              /\ wheelHalfTimes' = wheelHalfTimes
              /\ UNCHANGED << doorStates, doorTimes, pumpStates, pumpTimes >>
              /\ pc' = "scan" ]_vars
  /\ [][ (LineStep("Wheel") /\ ~pokeInProgress /\ ~skipLine /\ pc' = "scan")
           => currentState' = "Running" ]_vars

\* C26 witness: a Wheel tick was read after a Door line and a Pump On line:
\* the activity is still Poking and no tick is buffered
C26_Witness ==
  /\ pc = "scan" /\ line.kind = "Wheel" /\ line.state = "Tick"
  /\ pokeInProgress /\ currentState = "Poking"
  /\ wheelHalfTimes = << >> /\ poke_events = << >>
  /\ doorStates # << >> /\ pumpStates = <<"On">>


\* the elements of a sequence
ElementsOf(s) == {s[i] : i \in 1..Len(s)}

\* the runs that a step seals from the wheel buffer
SealedRuns ==
  { ri \in ElementsOf(rotation_intervals') \cup ElementsOf(erraticIntervals') :
      ri.built = wheelHalfTimes }

\* C27: a RotationInterval sealed from the wheel buffer, by a Door line or
\* at the end of the stream, is owned by the image that was current when
\* each of its ticks was logged.
C27_RunOwnedByImageOfItsTicks ==
  [][ ( /\ LineStep("Door") \/ EOFStep
        /\ currentState = "Running" /\ Len(wheelHalfTimes) >= MinTicks
        /\ pc' # "crashed" )
        => \A ri \in SealedRuns :
             \A i \in 1..Len(tickImgs) : ri.image = tickImgs[i] ]_vars

\* C28: in every state, while the activity is Poking the wheel-tick buffer
\* is empty, and while it is Running the door state and door time buffers
\* are empty.
C28_RunningAndPokingExclusive ==
  /\ currentState = "Poking" => wheelHalfTimes = << >>
  /\ currentState = "Running" => doorStates = << >> /\ doorTimes = << >>

\* C28 witness: a Door line has sealed a run of ticks: the activity is
\* Poking, the door buffers are filled and the wheel buffer is empty
C28_Witness ==
  /\ pc = "scan" /\ line.kind = "Door" /\ currentState = "Poking"
  /\ rotation_intervals # << >> /\ doorStates # << >>
  /\ wheelHalfTimes = << >>

NoImageYet == pc = "scan" /\ curImgName = NoName

\* C30: a Wheel line, a Door line or the end of the stream met before the
\* first image announcement does not stop the scan with an error, and the
\* PokeEvent or RotationInterval it seals is owned by the start image.
C30_ActivityBeforeFirstImage ==
  [][ (NoImageYet /\ (LineStep("Wheel") \/ LineStep("Door") \/ EOFStep))
        => /\ pc' # "crashed"
           /\ Len(poke_events') > Len(poke_events)
                => Last(poke_events').image = currentImg
           /\ Len(rotation_intervals') > Len(rotation_intervals)
                => Last(rotation_intervals').image = currentImg ]_vars


\* C31: a line of the body leaves every PokeEvent and every
\* RotationInterval sealed so far as it is (arrays, image, appearance time,
\* latency, ticks and speeds) and in its place on its list; the final seal
\* leaves every PokeEvent sealed before as it is.
C31_SealedEventsUnchanged ==
  [][ (pc = "scan" /\ (lineNo' = lineNo + 1 \/ EOFStep))
        => /\ IsPrefix(poke_events, poke_events')
           /\ lineNo' = lineNo + 1
                => IsPrefix(rotation_intervals, rotation_intervals') ]_vars

\* C31 witness: two more Wheel ticks were read after a PokeEvent with a
\* door sample was sealed
C31_Witness ==
  /\ pc = "scan" /\ Len(poke_events) = 1 /\ poke_events[1].doorStates # << >>
  /\ currentState = "Running" /\ Len(wheelHalfTimes) = 2


\* C32: whenever the activity is Poking while a body is scanned the door
\* buffers hold at least one sample, a PokeEvent is sealed only by a step taken while the activity is
\* Poking, and so every sealed PokeEvent holds at least one door state and
\* one door time.
C32_SealedPokeHasDoorSample ==
  /\ []((pc = "scan" /\ currentState = "Poking")
          => doorStates # << >> /\ doorTimes # << >>)
  /\ [](\A k \in 1..Len(poke_events) :
          /\ poke_events[k].doorStates # << >>
          /\ Len(poke_events[k].doorTimes) = Len(poke_events[k].doorStates))
  /\ [][ (pc = "scan" /\ Len(poke_events') > Len(poke_events))
           => currentState = "Poking" ]_vars

\* C32 witness: a PokeEvent with two door samples was sealed by a Wheel
\* line
C32_Witness ==
  /\ pc = "scan" /\ line.kind = "Wheel" /\ currentState = "Running"
  /\ Len(poke_events) = 1 /\ Len(poke_events[1].doorTimes) = 2


\* C33: every Pump line puts its (state, time) sample in the pump buffers;
\* samples leave the buffers only by being sealed, together, into one new
\* PokeEvent; and the end of the stream seals the samples still buffered
\* -- so that each Pump line of the body is in the pump arrays of exactly
\* one sealed PokeEvent when the scan ends.
C33_PumpSampleInOneSealedPoke ==
  [][ pc = "scan"
        => /\ LineStep("Pump")
                => /\ pumpStates' = Append(pumpStates, line'.state)
                   /\ pumpTimes' = Append(pumpTimes, line'.time)
           /\ (~LineStep("Pump") /\ ~EOFStep
                 /\ << pumpStates', pumpTimes' >> # << pumpStates, pumpTimes >>)
                => /\ pumpStates' = << >> /\ pumpTimes' = << >>
                   /\ poke_events' # << >>
                   /\ SubSeq(poke_events', 1, Len(poke_events') - 1) = poke_events
                   /\ Last(poke_events').pumpStates = pumpStates
                   /\ Last(poke_events').pumpTimes = pumpTimes
           /\ (EOFStep /\ pumpStates # << >>)
                => /\ poke_events' # << >>
                   /\ SubSeq(poke_events', 1, Len(poke_events') - 1) = poke_events
                   /\ Last(poke_events').pumpStates = pumpStates
                   /\ Last(poke_events').pumpTimes = pumpTimes ]_vars


\* C34: the time stamps of the body lines never decrease; whenever a
\* sealed PokeEvent has a latency, the appearance time it is measured from
\* is not later than the time of its pump-on line, i.e. the latency is not
\* below -3 ms.
C34_LatencyNotBeforeAppearance ==
  \A k \in 1..Len(poke_events) :
    LET pe == poke_events[k] IN
    pe.latency # << >>
      => /\ pe.latency[1] >= 0 - PumpDelayMs
         /\ \A t \in PumpOnTimes(pe) : pe.imageAppearanceTime <= t


\* C35: while a body is scanned the appearance log holds the Appearances
\* created by the accepted announcements of the file, one entry each, in
\* the order of the announcements; and the appearance map of every image
\* has as many entries as its list of appearance times.
C35_LogHoldsEveryAppearance ==
  pc = "scan"
    => /\ Len(appearanceLog) = Len(heap)
       /\ \A i \in 1..Len(appearanceLog) :
            i <= Len(heap) => appearanceLog[i] = <<heap[i].time, i>>
       /\ \A n \in Names : Len(appearances[n]) = Len(appearanceTimes[n])


\* C36: once a run of at least 3 ticks, whose time stamps never decrease
\* and may repeat, has been handed to endRun, no ZeroDivisionError was
\* raised and the list ends with the RotationInterval built from the run.
C36_RepeatedStampsSealWithoutError ==
  (pc # "rot" /\ Len(wheelHalfTimes) >= MinTicks)
    => /\ pc = "rotdone" /\ error = "none"
       /\ rotation_intervals # << >>
       /\ Last(rotation_intervals).built = wheelHalfTimes

====
